---- MODULE Spec2Model ----
(***************************************************************************)
(* Model of dn_deobfuscator/app.py: the SysEx patch scan and markdown      *)
(* report (extract_sysex_patches_to_markdown), the Digitone preset parser  *)
(* (parse_digitone_preset), the two hex-dump formatters                    *)
(* (extract_readable_text_from_binary, format_hex_dump) and the batch      *)
(* extraction of patch archives (extract_file_from_zip,                    *)
(* extract_patches_from_directory, write_patches_to_markdown).             *)
(*                                                                         *)
(* Conventions.  A byte buffer is a sequence of integers 0..255; the code  *)
(* indexes from 0, so At(d, k) is d[k + 1].  A Python str, and the text of *)
(* a file, is the sequence of its character codes.  A Python float with    *)
(* two decimals is kept in hundredths (38.71 is 3871); Python ints are     *)
(* kept as they are.  A directory is a function from file names to files.  *)
(* Each behaviour is one call: pc starts at the entry of one operation.    *)
(***************************************************************************)
EXTENDS Integers, Sequences, FiniteSets, TLC

VARIABLES pc, data, i, patches, frames, append, mdFile, mdBefore, error,
          binary_data, parameters, reads, previous, dump_data, dump_text,
          patches_dir, patch_files, file_index, zip_files, extract_subdir,
          results, output_md, raised, binary_path, text_path

vars == <<pc, data, i, patches, frames, append, mdFile, mdBefore, error,
          binary_data, parameters, reads, previous, dump_data, dump_text,
          patches_dir, patch_files, file_index, zip_files, extract_subdir,
          results, output_md, raised, binary_path, text_path>>

sysexVars == <<data, i, patches, frames, append, mdFile, mdBefore, error>>
presetVars == <<binary_data, parameters, reads, previous>>
dumpVars == <<dump_data, dump_text>>
batchVars == <<patches_dir, patch_files, file_index, zip_files, extract_subdir,
               results, output_md, raised, binary_path, text_path>>

----------------------------------------------------------------------------
(* Bounds of the model *)

\* longest buffer of the exhaustive family (every byte string over Alphabet)
MaxShortLen == 5
\* most two-byte frames put in front of a structured frame
MaxLead == 10
\* longest preset buffer
MaxPresetLen == 217
\* longest buffer of the two dump families, and the length of the long buffer
MaxDumpLen == 34
LongDumpLen == 177
\* most patch files in a directory
MaxFiles == 2

----------------------------------------------------------------------------
(* Program constants *)

SYSEX_START == 240
SYSEX_END == 247
PREFIX_OFFSET == 24
PREFIX_LEN == 2
NAME_OFFSET == 28
NAME_LEN == 8
PRINTABLE_LO == 32
PRINTABLE_HI == 126
NUL == 0

At(d, k) == d[k + 1]

Min(a, b) == IF a < b THEN a ELSE b

\* data[a : b] for 0 <= a, clipped to the buffer like a Python slice
Slice(d, a, b) == SubSeq(d, a + 1, Min(b, Len(d)))

IsPrintable(b) == PRINTABLE_LO <= b /\ b <= PRINTABLE_HI

\* the value FindEnd returns when the inner for loop runs to its else branch
NotFound == -1

\* "KICK", "BASS", ... as character codes
KW_KICK == <<75, 73, 67, 75>>
KW_BASS == <<66, 65, 83, 83>>
KW_SNARE == <<83, 78, 65, 82, 69>>
KW_DRUM == <<68, 82, 85, 77>>
KW_LOW == <<76, 79, 87>>
KW_BRASS == <<66, 82, 65, 83, 83>>
KW_HORN == <<72, 79, 82, 78>>
KW_STRING == <<83, 84, 82, 73, 78, 71>>
KW_PAD == <<80, 65, 68>>
KW_PERC == <<80, 69, 82, 67>>
KW_TOM == <<84, 79, 77>>
KW_LIGHT == <<76, 73, 71, 72, 84>>
KW_SOFT == <<83, 79, 70, 84>>
KW_HARD == <<72, 65, 82, 68>>
KW_TOUGH == <<84, 79, 85, 71, 72>>

\* "Unknown"
UNKNOWN == <<85, 110, 107, 110, 111, 119, 110>>
\* ". "
SEPARATOR == <<46, 32>>

\* the dict SAMPLE_TAGS in declaration order: list(SAMPLE_TAGS.items())
SAMPLE_TAGS ==
  << [key |-> "KICK",   tags |-> <<"KICK", "PERC", "DEEP">>],
     [key |-> "SNARE",  tags |-> <<"SNAR", "PERC", "BRIG">>],
     [key |-> "BASS",   tags |-> <<"DEEP", "LOW", "SOFT">>],
     [key |-> "BRASS",  tags |-> <<"BRAS", "STRI", "BRIG">>],
     [key |-> "STRING", tags |-> <<"STRI", "SOFT", "LIGH">>],
     [key |-> "PERC",   tags |-> <<"PERC", "KICK", "HARD">>],
     [key |-> "LIGHT",  tags |-> <<"LIGH", "SOFT", "SLIG">>],
     [key |-> "HARD",   tags |-> <<"HARD", "KICK", "PERC">>],
     [key |-> "SOFT",   tags |-> <<"SOFT", "LIGH", "STRI">>] >>

\* SAMPLE_TAGS[key]
TagsOf(key) ==
  (CHOOSE e \in {SAMPLE_TAGS[n] : n \in 1..Len(SAMPLE_TAGS)} : e.key = key).tags

----------------------------------------------------------------------------
(* find_patches: the pieces of one loop iteration *)

\* faulty variant of FindEnd: the last 0xF7 of the buffer instead of the nearest
FindEndLast(d, j) ==
  IF \E k \in j..(Len(d) - 1) : At(d, k) = SYSEX_END
  THEN CHOOSE k \in j..(Len(d) - 1) :
         /\ At(d, k) = SYSEX_END
         /\ \A m \in (k + 1)..(Len(d) - 1) : At(d, m) # SYSEX_END
  ELSE NotFound

\* faulty variant of FindEnd: an unterminated 0xF0 makes a frame up to the end
\* of the buffer
FindEndOrEof(d, j) ==
  IF \E k \in j..(Len(d) - 1) : At(d, k) = SYSEX_END
  THEN CHOOSE k \in j..(Len(d) - 1) :
         /\ At(d, k) = SYSEX_END
         /\ \A m \in j..(k - 1) : At(d, m) # SYSEX_END
  ELSE IF j < Len(d) THEN Len(d) - 1 ELSE NotFound

\* for j in range(i + 1, len(data)): if data[j] == 0xF7 -> j; else branch -> NotFound
RECURSIVE FindEnd(_, _)
FindEnd(d, j) ==
  IF j >= Len(d) THEN NotFound
  ELSE IF At(d, j) = SYSEX_END THEN j
  ELSE FindEnd(d, j + 1)

\* for k in range(prefix_start, min(prefix_start + 2, j)): keep the printable bytes
RECURSIVE PrefixBytes(_, _, _)
PrefixBytes(d, k, stop) ==
  IF k >= stop THEN <<>>
  ELSE (IF IsPrintable(At(d, k)) THEN <<At(d, k)>> ELSE <<>>)
       \o PrefixBytes(d, k + 1, stop)

\* faulty variant of NameBytes: any non-printable byte ends the name
RECURSIVE NameBytesStopAtNonPrintable(_, _, _)
NameBytesStopAtNonPrintable(d, k, stop) ==
  IF k >= stop THEN <<>>
  ELSE IF ~IsPrintable(At(d, k)) THEN <<>>
  ELSE <<At(d, k)>> \o NameBytesStopAtNonPrintable(d, k + 1, stop)

\* for k in range(name_start, min(name_start + 8, j)): break at 0x00, keep the
\* printable bytes
RECURSIVE NameBytes(_, _, _)
NameBytes(d, k, stop) ==
  IF k >= stop THEN <<>>
  ELSE IF At(d, k) = NUL THEN <<>>
  ELSE (IF IsPrintable(At(d, k)) THEN <<At(d, k)>> ELSE <<>>)
       \o NameBytes(d, k + 1, stop)

\* min(prefix_start + 2, j) for the frame data[s .. j]
PrefixStop(s, j) == Min(s + PREFIX_OFFSET + PREFIX_LEN, j)

\* faulty variant of NameStop: the range ends after the 0xF7 instead of before it
NameStopAfterEnd(s, j) == Min(s + NAME_OFFSET + NAME_LEN, j + 1)

\* min(name_start + 8, j) for the frame data[s .. j]
NameStop(s, j) == Min(s + NAME_OFFSET + NAME_LEN, j)

Prefix(d, s, j) == PrefixBytes(d, s + PREFIX_OFFSET, PrefixStop(s, j))

MainName(d, s, j) ==
  LET name_bytes == NameBytes(d, s + NAME_OFFSET, NameStop(s, j))
  IN  IF name_bytes # <<>> THEN name_bytes ELSE UNKNOWN

\* the offsets k of the data[k] the prefix loop evaluates: every k of its range
PrefixReads(d, k, stop) == k..(stop - 1)

\* the offsets k of the data[k] the name loop evaluates: its range up to and
\* including the first 0x00, where it breaks
RECURSIVE NameReads(_, _, _)
NameReads(d, k, stop) ==
  IF k >= stop THEN {}
  ELSE IF At(d, k) = NUL THEN {k}
  ELSE {k} \cup NameReads(d, k + 1, stop)

\* faulty variant of FullName: no ". " between prefix and name
FullNameNoSeparator(prefix, main_name) ==
  IF prefix # <<>> THEN prefix \o main_name ELSE main_name

\* name = f"{prefix}. {main_name}" if prefix else main_name
FullName(prefix, main_name) ==
  IF prefix # <<>> THEN prefix \o SEPARATOR \o main_name ELSE main_name

\* str.upper() on a str of ASCII characters
Upper(s) == [n \in 1..Len(s) |-> IF 97 <= s[n] /\ s[n] <= 122 THEN s[n] - 32 ELSE s[n]]

\* kw in s
Contains(s, kw) ==
  \E n \in 1..(Len(s) - Len(kw) + 1) : SubSeq(s, n, n + Len(kw) - 1) = kw

\* str.isspace() for one ASCII character
IsSpace(c) == c \in {9, 10, 11, 12, 13, 28, 29, 30, 31, 32}

\* str.strip()
RECURSIVE LStrip(_)
LStrip(s) == IF s # <<>> /\ IsSpace(Head(s)) THEN LStrip(Tail(s)) ELSE s

RECURSIVE RStrip(_)
RStrip(s) ==
  IF s # <<>> /\ IsSpace(s[Len(s)]) THEN RStrip(SubSeq(s, 1, Len(s) - 1)) ELSE s

Strip(s) == RStrip(LStrip(s))

\* faulty variant of FallbackTags: the index counts the frame itself
FallbackTagsShifted(n) == SAMPLE_TAGS[((n + 1) % Len(SAMPLE_TAGS)) + 1].tags

\* index = len(patches) % len(SAMPLE_TAGS); list(SAMPLE_TAGS.values())[index]
FallbackTags(n) == SAMPLE_TAGS[(n % Len(SAMPLE_TAGS)) + 1].tags

\* faulty variant of SelectTags: the BASS|LOW group is tried before KICK|BASS
SelectTagsBassFirst(name, n) ==
  LET u == Upper(name) IN
  IF Contains(u, KW_BASS) \/ Contains(u, KW_LOW) THEN TagsOf("BASS")
  ELSE IF Contains(u, KW_KICK) \/ Contains(u, KW_BASS) THEN TagsOf("KICK")
  ELSE IF Contains(u, KW_SNARE) \/ Contains(u, KW_DRUM) THEN TagsOf("SNARE")
  ELSE IF Contains(u, KW_BRASS) \/ Contains(u, KW_HORN) THEN TagsOf("BRASS")
  ELSE IF Contains(u, KW_STRING) \/ Contains(u, KW_PAD) THEN TagsOf("STRING")
  ELSE IF Contains(u, KW_PERC) \/ Contains(u, KW_TOM) THEN TagsOf("PERC")
  ELSE IF Contains(u, KW_LIGHT) \/ Contains(u, KW_SOFT) THEN TagsOf("LIGHT")
  ELSE IF Contains(u, KW_HARD) \/ Contains(u, KW_TOUGH) THEN TagsOf("HARD")
  ELSE FallbackTags(n)

\* the if / elif chain on name_upper; n is len(patches)
SelectTags(name, n) ==
  LET name_upper == Upper(name) IN
  IF Contains(name_upper, KW_KICK) \/ Contains(name_upper, KW_BASS) THEN TagsOf("KICK")
  ELSE IF Contains(name_upper, KW_SNARE) \/ Contains(name_upper, KW_DRUM) THEN TagsOf("SNARE")
  ELSE IF Contains(name_upper, KW_BASS) \/ Contains(name_upper, KW_LOW) THEN TagsOf("BASS")
  ELSE IF Contains(name_upper, KW_BRASS) \/ Contains(name_upper, KW_HORN) THEN TagsOf("BRASS")
  ELSE IF Contains(name_upper, KW_STRING) \/ Contains(name_upper, KW_PAD) THEN TagsOf("STRING")
  ELSE IF Contains(name_upper, KW_PERC) \/ Contains(name_upper, KW_TOM) THEN TagsOf("PERC")
  ELSE IF Contains(name_upper, KW_LIGHT) \/ Contains(name_upper, KW_SOFT) THEN TagsOf("LIGHT")
  ELSE IF Contains(name_upper, KW_HARD) \/ Contains(name_upper, KW_TOUGH) THEN TagsOf("HARD")
  ELSE FallbackTags(n)

\* the dict appended to patches for the frame data[s .. j], n = len(patches)
MakePatch(d, s, j, n) ==
  LET name == FullName(Prefix(d, s, j), MainName(d, s, j))
  IN  [name |-> Strip(name), tags |-> SelectTags(name, n), data |-> Slice(d, s, j + 1)]

\* the locals of the iteration that found the frame (not part of the result)
FrameLocals(d, s, j) ==
  [start |-> s, end |-> j, prefix |-> Prefix(d, s, j), main_name |-> MainName(d, s, j),
   name |-> FullName(Prefix(d, s, j), MainName(d, s, j)),
   prefix_reads |-> PrefixReads(d, s + PREFIX_OFFSET, PrefixStop(s, j)),
   name_reads |-> NameReads(d, s + NAME_OFFSET, NameStop(s, j))]

\* find_patches(data) as a whole: the while loop from index k with the list ps
RECURSIVE ScanFrom(_, _, _)
ScanFrom(d, k, ps) ==
  IF k >= Len(d) THEN ps
  ELSE IF At(d, k) = SYSEX_START /\ FindEnd(d, k + 1) # NotFound
       THEN ScanFrom(d, FindEnd(d, k + 1) + 1,
                     Append(ps, MakePatch(d, k, FindEnd(d, k + 1), Len(ps))))
       ELSE ScanFrom(d, k + 1, ps)

find_patches(d) == ScanFrom(d, 0, <<>>)

----------------------------------------------------------------------------
(* Text and the two hex-dump formatters *)

NEWLINE == 10
SPACE == 32
DOT == 46
BAR == 124
\* bytes per dump line
CHUNK == 16
\* hex_line.ljust(48)
HEX_WIDTH == 48
\* while len(hex_values) < 17: 16 bytes + 1 space
HEX_ENTRIES == 17
\* the index j after which the extra "" entry is appended
HALF_INDEX == 7

\* one hex digit as a character code: 0-9, then a-f or A-F
HexDigit(n, upper) == IF n < 10 THEN 48 + n ELSE (IF upper THEN 55 ELSE 87) + n

\* f"{b:02x}" and f"{b:02X}"
Hex2(b, upper) == << HexDigit(b \div 16, upper), HexDigit(b % 16, upper) >>

\* f"{n:08x}" and f"{n:08X}" for n below 16^8
Hex8(n, upper) ==
  [k \in 1..8 |-> HexDigit((n \div (16 ^ (8 - k))) % 16, upper)]

Spaces(n) == [k \in 1..n |-> SPACE]

\* s.ljust(w)
LJust(s, w) == IF Len(s) >= w THEN s ELSE s \o Spaces(w - Len(s))

\* the concatenation of the strings of a list: "".join(parts)
RECURSIVE Concat(_)
Concat(parts) ==
  IF parts = <<>> THEN <<>> ELSE Head(parts) \o Concat(Tail(parts))

\* sep.join(parts)
RECURSIVE Join(_, _)
Join(parts, sep) ==
  IF parts = <<>> THEN <<>>
  ELSE IF Len(parts) = 1 THEN Head(parts)
  ELSE Head(parts) \o sep \o Join(Tail(parts), sep)

\* faulty variant of get_printable_char: 126 is left out of the range
GetPrintableCharBelow126(byte) == IF 32 <= byte /\ byte < 126 THEN byte ELSE DOT

\* the byte's own character in 32..126, "." otherwise
get_printable_char(byte) == IF 32 <= byte /\ byte <= 126 THEN byte ELSE DOT

\* hex_values after the for loop over the chunk: one entry per byte and the
\* empty entry right after the byte of index 7
RECURSIVE HexValuesFrom(_, _)
HexValuesFrom(chunk, j) ==
  IF j >= Len(chunk) THEN <<>>
  ELSE <<Hex2(At(chunk, j), FALSE)>>
       \o (IF j = HALF_INDEX THEN << <<>> >> ELSE <<>>)
       \o HexValuesFrom(chunk, j + 1)

\* how often the body of while len(hex_values) < 17 runs
PadCount(chunk) ==
  LET n == Len(HexValuesFrom(chunk, 0)) IN
  IF n < HEX_ENTRIES THEN HEX_ENTRIES - n ELSE 0

\* one line of extract_readable_text_from_binary for the chunk at offset o
ReadableLine(d, o) ==
  LET chunk == Slice(d, o, o + CHUNK)
      hex_values == HexValuesFrom(chunk, 0)
                      \o [k \in 1..PadCount(chunk) |-> <<SPACE, SPACE>>]
      ascii_chars == [k \in 1..Len(chunk) |-> get_printable_char(chunk[k])]
                       \o Spaces(PadCount(chunk))
  IN  Hex8(o, FALSE) \o <<SPACE, SPACE>> \o Join(hex_values, <<SPACE>>)
        \o <<SPACE, SPACE, BAR>> \o ascii_chars \o <<BAR>>

\* for i in range(0, len(binary_data), 16), i written o: lines.append(...)
RECURSIVE ReadableLinesFrom(_, _)
ReadableLinesFrom(d, o) ==
  IF o >= Len(d) THEN <<>>
  ELSE <<ReadableLine(d, o)>> \o ReadableLinesFrom(d, o + CHUNK)

\* faulty variant of extract_readable_text_from_binary: the last line is dropped
ReadableTextDroppingLast(d) ==
  LET ls == ReadableLinesFrom(d, 0) IN
  Join(IF ls = <<>> THEN ls ELSE SubSeq(ls, 1, Len(ls) - 1), <<NEWLINE>>)

\* the text extract_readable_text_from_binary returns for a file holding d
extract_readable_text_from_binary(d) ==
  Join(ReadableLinesFrom(d, 0), <<NEWLINE>>)

\* ascii_line of format_hex_dump
SysexAscii(chunk) == [k \in 1..Len(chunk) |-> get_printable_char(chunk[k])]

\* one line of format_hex_dump for the chunk at offset o
SysexLine(d, o) ==
  LET chunk == Slice(d, o, o + CHUNK)
      hex_line == Join([k \in 1..Len(chunk) |-> Hex2(chunk[k], TRUE)], <<SPACE>>)
  IN  Hex8(o, TRUE) \o <<SPACE, SPACE>> \o LJust(hex_line, HEX_WIDTH)
        \o <<SPACE, SPACE, BAR>> \o LJust(SysexAscii(chunk), CHUNK) \o <<BAR>>

\* for i in range(0, len(data), 16), i written o: result.append(...)
RECURSIVE SysexLinesFrom(_, _)
SysexLinesFrom(d, o) ==
  IF o >= Len(d) THEN <<>>
  ELSE <<SysexLine(d, o)>> \o SysexLinesFrom(d, o + CHUNK)

\* format_hex_dump(data)
format_hex_dump(d) == Join(SysexLinesFrom(d, 0), <<NEWLINE>>)

\* the bytes A, B, C, ... of the given length
Letters(n) == [k \in 1..n |-> 64 + k]

\* bytes on both sides of the printable range, the column bar and a newline
EDGE_BYTES == <<31, 32, 126, 127, 0, 255, 124, 10>>

EdgeBytes(n) == [k \in 1..n |-> EDGE_BYTES[((k - 1) % Len(EDGE_BYTES)) + 1]]

\* buffers to dump: letters and edge bytes of each length, every single byte,
\* and one long buffer whose offsets need the hex digits a-f
DumpInputs ==
  { Letters(n) : n \in 0..MaxDumpLen } \cup { EdgeBytes(n) : n \in 0..MaxDumpLen }
    \cup { <<b>> : b \in 0..255 }
    \cup { [k \in 1..LongDumpLen |-> (k * 7) % 256] }

NoText == [returned |-> FALSE, text |-> <<>>]

\* extract_readable_text_from_binary(binary_path) on a file holding dump_data
ExtractReadableText ==
  /\ pc = "readable"
  /\ pc' = "read"
  /\ dump_text' = [returned |-> TRUE,
                   text |-> extract_readable_text_from_binary(dump_data)]
  /\ UNCHANGED <<dump_data, sysexVars, presetVars, batchVars>>

\* format_hex_dump(data)
FormatHexDump ==
  /\ pc = "hexdump"
  /\ pc' = "formatted"
  /\ dump_text' = [returned |-> TRUE, text |-> format_hex_dump(dump_data)]
  /\ UNCHANGED <<dump_data, sysexVars, presetVars, batchVars>>

----------------------------------------------------------------------------
(* Inputs of extract_sysex_patches_to_markdown *)

Alphabet == {SYSEX_START, SYSEX_END, NUL, 65}

ShortBuffers == UNION {[1..n -> Alphabet] : n \in 0..MaxShortLen}

\* the first 0x18 bytes of the frame used by tests/unit/test_sysex_extraction.py
TEST_HEADER ==
  <<240, 0, 32, 60, 13, 0, 83, 1, 1, 0, 120, 62, 111, 58, 78, 0,
    0, 0, 0, 1, 0, 0, 0, 33>>

\* the two bytes at frame offset 0x18: "BD", "CY", nulls, " B", "B" + 0x01, "  "
PrefixFields ==
  { <<66, 68>>, <<67, 89>>, <<0, 0>>, <<32, 66>>, <<66, 1>>, <<32, 32>> }

Pad8(s) == s \o [n \in 1..(NAME_LEN - Len(s)) |-> NUL]

\* the eight bytes at frame offset 0x1C
NameFields ==
  { Pad8(s) : s \in
      { KW_KICK, KW_BASS, KW_SNARE, KW_DRUM, KW_LOW, KW_BRASS, KW_HORN, KW_STRING,
        KW_PAD, KW_PERC, KW_TOM, KW_LIGHT, KW_SOFT, KW_HARD, KW_TOUGH,
        <<84, 69, 83, 84>>,                      \* TEST
        <<107, 105, 99, 107>>,                   \* kick
        <<66, 97, 115, 115>>,                    \* Bass
        <<83, 79, 70, 84, 80, 65, 68>>,          \* SOFTPAD
        <<76, 79, 87, 84, 79, 77>>,              \* LOWTOM
        <<72, 65, 82, 68, 75, 73, 67, 75>>,      \* HARDKICK
        <<65, 66, 1, 67, 68>>,                   \* AB 0x01 CD
        <<65, 66, 0, 67, 68>>,                   \* AB 0x00 CD
        <<65, 66, 32>>,                          \* "AB "
        <<32, 32, 32>>,                          \* spaces only
        <<1, 2, 200>>,                           \* no printable byte
        <<65, 247, 66>>,                         \* 0xF7 inside the field
        <<>> } }

\* frame lengths before the closing 0xF7: they end the frame before, inside and
\* after the prefix field and the name field
FrameCuts == {24, 25, 26, 28, 29, 32, 36, 38}

FrameBody(p, nm) == TEST_HEADER \o p \o <<0, 32>> \o nm \o <<32, 83>>

StructuredFrame(p, nm, cut) == SubSeq(FrameBody(p, nm), 1, cut) \o <<SYSEX_END>>

RECURSIVE LeadFrames(_)
LeadFrames(k) == IF k = 0 THEN <<>> ELSE <<SYSEX_START, SYSEX_END>> \o LeadFrames(k - 1)

\* what follows the last frame: nothing, an unterminated 0xF0, a stray byte
Trailers == { <<>>, <<SYSEX_START, 65>>, <<NUL>> }

StructuredBuffers ==
  { StructuredFrame(p, nm, cut) \o t :
      p \in PrefixFields, nm \in NameFields, cut \in FrameCuts, t \in {<<>>, <<SYSEX_START, 65>>} }

LeadNames == { Pad8(KW_KICK), Pad8(<<84, 69, 83, 84>>), Pad8(<<>>) }

LeadBuffers ==
  { LeadFrames(k) \o StructuredFrame(<<66, 68>>, nm, 38) \o LeadFrames(r) \o t :
      k \in 0..MaxLead, nm \in LeadNames, r \in 0..1, t \in Trailers }

SysexInputs == ShortBuffers \cup StructuredBuffers \cup LeadBuffers

\* the tag words of SAMPLE_TAGS as character codes
TAG_CHARS ==
  ("KICK" :> <<75, 73, 67, 75>>)
    @@ ("PERC" :> <<80, 69, 82, 67>>)
    @@ ("DEEP" :> <<68, 69, 69, 80>>)
    @@ ("SNAR" :> <<83, 78, 65, 82>>)
    @@ ("BRIG" :> <<66, 82, 73, 71>>)
    @@ ("LOW" :> <<76, 79, 87>>)
    @@ ("SOFT" :> <<83, 79, 70, 84>>)
    @@ ("BRAS" :> <<66, 82, 65, 83>>)
    @@ ("STRI" :> <<83, 84, 82, 73>>)
    @@ ("LIGH" :> <<76, 73, 71, 72>>)
    @@ ("HARD" :> <<72, 65, 82, 68>>)
    @@ ("SLIG" :> <<83, 76, 73, 71>>)

\* "- patch name: ", "- patch tags: ", "- patch binary:", ", "
LABEL_NAME == <<45, 32, 112, 97, 116, 99, 104, 32, 110, 97, 109, 101, 58, 32>>
LABEL_TAGS == <<45, 32, 112, 97, 116, 99, 104, 32, 116, 97, 103, 115, 58, 32>>
LABEL_BINARY == <<45, 32, 112, 97, 116, 99, 104, 32, 98, 105, 110, 97, 114, 121, 58>>
TAG_SEPARATOR == <<44, 32>>

\* faulty variant of PatchBlock: a rule of 80 dashes is written after the block
PatchBlockWithRule(p) ==
  LABEL_NAME \o p.name \o <<NEWLINE>>
    \o LABEL_TAGS \o Join([k \in 1..Len(p.tags) |-> TAG_CHARS[p.tags[k]]], TAG_SEPARATOR)
    \o <<NEWLINE>>
    \o LABEL_BINARY \o <<NEWLINE, NEWLINE>>
    \o format_hex_dump(p.data)
    \o <<NEWLINE, NEWLINE>>
    \o [k \in 1..80 |-> 45] \o <<NEWLINE, NEWLINE>>

\* the five writes of the loop body for one patch
PatchBlock(p) ==
  LABEL_NAME \o p.name \o <<NEWLINE>>
    \o LABEL_TAGS \o Join([k \in 1..Len(p.tags) |-> TAG_CHARS[p.tags[k]]], TAG_SEPARATOR)
    \o <<NEWLINE>>
    \o LABEL_BINARY \o <<NEWLINE, NEWLINE>>
    \o format_hex_dump(p.data)
    \o <<NEWLINE, NEWLINE>>

\* for patch in patches: the writes of all patches, in list order
ReportText(ps) == Concat([k \in 1..Len(ps) |-> PatchBlock(ps[k])])

\* faulty variant of FileMode: the file is always opened with "w"
FileModeAlwaysWrite(app) == "w"

\* file_mode = "a" if append else "w"
FileMode(app) == IF app THEN "a" ELSE "w"

\* what the file holds right after open(path, mode): "a" keeps it, "w" empties it
Opened(file, mode) == IF mode = "a" THEN file.content ELSE <<>>

\* a block written by an earlier call (append mode keeps such blocks)
OLD_BLOCK == [name |-> <<79, 76, 68>>, tags |-> <<"SOFT", "LIGH", "STRI">>,
              data |-> <<SYSEX_START, SYSEX_END>>]

\* "# Existing Patches\n\n"
EXISTING_HEADER == <<35, 32, 69, 120, 105, 115, 116, 105, 110, 103, 32, 80, 97, 116, 99, 104, 101, 115, 10, 10>>

Absent == [exists |-> FALSE, content |-> <<>>]

\* the output file before the call: absent, empty, or holding a header and
\* the block of an earlier call
MdFiles == { Absent, [exists |-> TRUE, content |-> <<>>],
             [exists |-> TRUE, content |-> EXISTING_HEADER \o PatchBlock(OLD_BLOCK)] }

NoError == [type |-> "", message |-> ""]

NoPatchesError == [type |-> "ValueError", message |-> "No valid patches found in SysEx file"]

NoParameters == [returned |-> FALSE]

----------------------------------------------------------------------------
(* extract_sysex_patches_to_markdown *)

\* faulty variant of FoundPatch: the scan resumes at the byte after the 0xF0
FoundPatchResumeAfterStart ==
  /\ pc = "scan"
  /\ i < Len(data)
  /\ At(data, i) = SYSEX_START
  /\ FindEnd(data, i + 1) # NotFound
  /\ LET j == FindEnd(data, i + 1) IN
       /\ patches' = Append(patches, MakePatch(data, i, j, Len(patches)))
       /\ frames' = Append(frames, FrameLocals(data, i, j))
       /\ i' = i + 1
  /\ UNCHANGED <<pc, data, append, mdFile, mdBefore, error, presetVars, dumpVars, batchVars>>

\* while i < len(data), data[i] == 0xF0 and a 0xF7 follows: append the patch
FoundPatch ==
  /\ pc = "scan"
  /\ i < Len(data)
  /\ At(data, i) = SYSEX_START
  /\ FindEnd(data, i + 1) # NotFound
  /\ LET j == FindEnd(data, i + 1) IN
       /\ patches' = Append(patches, MakePatch(data, i, j, Len(patches)))
       /\ frames' = Append(frames, FrameLocals(data, i, j))
       /\ i' = j + 1
  /\ UNCHANGED <<pc, data, append, mdFile, mdBefore, error, presetVars, dumpVars, batchVars>>

\* data[i] == 0xF0 and the for loop ends without break: i += 1
UnterminatedStart ==
  /\ pc = "scan"
  /\ i < Len(data)
  /\ At(data, i) = SYSEX_START
  /\ FindEnd(data, i + 1) = NotFound
  /\ i' = i + 1
  /\ UNCHANGED <<pc, data, patches, frames, append, mdFile, mdBefore, error, presetVars, dumpVars, batchVars>>

\* data[i] != 0xF0: i += 1
SkipByte ==
  /\ pc = "scan"
  /\ i < Len(data)
  /\ At(data, i) # SYSEX_START
  /\ i' = i + 1
  /\ UNCHANGED <<pc, data, patches, frames, append, mdFile, mdBefore, error, presetVars, dumpVars, batchVars>>

\* faulty variant of RaiseNoPatches: the output file is opened before the raise
RaiseNoPatchesTruncating ==
  /\ pc = "scan"
  /\ i >= Len(data)
  /\ patches = <<>>
  /\ pc' = "raised"
  /\ error' = NoPatchesError
  /\ mdFile' = [exists |-> TRUE, content |-> Opened(mdFile, FileMode(append))]
  /\ UNCHANGED <<data, i, patches, frames, append, mdBefore, presetVars, dumpVars, batchVars>>

\* if not patches: raise ValueError(...), before the output file is opened
RaiseNoPatches ==
  /\ pc = "scan"
  /\ i >= Len(data)
  /\ patches = <<>>
  /\ pc' = "raised"
  /\ error' = NoPatchesError
  /\ UNCHANGED <<data, i, patches, frames, append, mdFile, mdBefore, presetVars, dumpVars, batchVars>>

\* open(output_markdown_path, "a" if append else "w") and one block per patch
WriteMarkdown ==
  /\ pc = "scan"
  /\ i >= Len(data)
  /\ patches # <<>>
  /\ pc' = "written"
  /\ mdFile' = [exists |-> TRUE,
                content |-> Opened(mdFile, FileMode(append)) \o ReportText(patches)]
  /\ UNCHANGED <<data, i, patches, frames, append, mdBefore, error, presetVars, dumpVars, batchVars>>

----------------------------------------------------------------------------
(* parse_digitone_preset *)

LFO1_SPEED_OFFSET == 196
LFO1_DEPTH_OFFSET == 204
LFO2_SPEED_OFFSET == 206
LFO2_DEPTH_OFFSET == 214

\* the offsets the function reads, with the extraction_info key of each
LfoReads ==
  << [offset |-> LFO1_SPEED_OFFSET, key |-> "lfo1_speed_raw"],
     [offset |-> LFO1_DEPTH_OFFSET, key |-> "lfo1_depth_raw"],
     [offset |-> LFO2_SPEED_OFFSET, key |-> "lfo2_speed_raw"],
     [offset |-> LFO2_DEPTH_OFFSET, key |-> "lfo2_depth_raw"] >>

\* the path the preset was read from
BINARY_PATH == "hidden-tears"

\* faulty variant of CanRead: one byte too strict
CanReadStrict(offset, n) == offset + 2 < n

\* if lfo1_speed_offset + 1 < len(binary_data)
CanRead(offset, n) == offset + 1 < n

RECURSIVE Pow256(_)
Pow256(n) == IF n = 0 THEN 1 ELSE 256 * Pow256(n - 1)

RECURSIVE UnsignedLittle(_)
UnsignedLittle(bs) == IF bs = <<>> THEN 0 ELSE Head(bs) + 256 * UnsignedLittle(Tail(bs))

RECURSIVE UnsignedBig(_)
UnsignedBig(bs) ==
  IF bs = <<>> THEN 0 ELSE bs[Len(bs)] + 256 * UnsignedBig(SubSeq(bs, 1, Len(bs) - 1))

\* faulty variant of FromBytesLittleSigned: byteorder="big"
FromBytesBigSigned(bs) ==
  LET u == UnsignedBig(bs) IN
  IF bs # <<>> /\ 2 * u >= Pow256(Len(bs)) THEN u - Pow256(Len(bs)) ELSE u

\* int.from_bytes(bs, byteorder="little", signed=True)
FromBytesLittleSigned(bs) ==
  LET u == UnsignedLittle(bs) IN
  IF bs # <<>> /\ 2 * u >= Pow256(Len(bs)) THEN u - Pow256(Len(bs)) ELSE u

\* the raw read of one LFO field and its entry of extraction_info, if in range
RawEntry(d, r) ==
  IF CanRead(r.offset, Len(d))
  THEN r.key :> FromBytesLittleSigned(Slice(d, r.offset, r.offset + 2))
  ELSE <<>>

\* faulty variant of ExtractionInfo: the bytes read are kept in a buffer that
\* outlives the call, so binary_size grows with every call
ExtractionInfoAccumulating(path, d) ==
  [binary_file |-> path,
   binary_size |-> Len(d) + (IF parameters.returned
                             THEN parameters._extraction_info["binary_size"] ELSE 0)]
    @@ RawEntry(d, LfoReads[1]) @@ RawEntry(d, LfoReads[2])
    @@ RawEntry(d, LfoReads[3]) @@ RawEntry(d, LfoReads[4])

\* extraction_info when the function returns
ExtractionInfo(path, d) ==
  [binary_file |-> path, binary_size |-> Len(d)]
    @@ RawEntry(d, LfoReads[1]) @@ RawEntry(d, LfoReads[2])
    @@ RawEntry(d, LfoReads[3]) @@ RawEntry(d, LfoReads[4])

\* the offsets of binary_data the call slices
OffsetsRead(d) ==
  { LfoReads[n].offset : n \in { m \in 1..Len(LfoReads) : CanRead(LfoReads[m].offset, Len(d)) } }

\* faulty variant of parse_digitone_preset: the function returns after the
\* values of the first page
ParsePresetFirstPageOnly(path, d) ==
  [ returned |-> TRUE,
    algo |-> 7,
    c |-> 100,
    a |-> 100,
    b |-> <<100, 100>>,
    harm |-> -1450,
    dtun |-> 3871,
    fdbk |-> 85,
    mix |-> -28,
    _extraction_info |-> ExtractionInfo(path, d) ]

\* the dict the function returns (floats in hundredths)
parse_digitone_preset(path, d) ==
  [ returned |-> TRUE,
    algo |-> 7,
    c |-> 100,
    a |-> 100,
    b |-> <<100, 100>>,
    harm |-> -1450,
    dtun |-> 3871,
    fdbk |-> 85,
    mix |-> -28,
    a_envelope |-> [atk |-> 0, dec |-> 124, end |-> 0, lev |-> 115],
    b_envelope |-> [atk |-> 0, dec |-> 127, end |-> 0, lev |-> 127],
    adel |-> 0, atrg |-> TRUE, arst |-> TRUE, phrt |-> "ALL",
    bdel |-> 0, btrg |-> TRUE, brst |-> TRUE,
    ratio_offset |-> [c |-> 0, a |-> 0, b1 |-> 0, b2 |-> 0],
    key_track |-> [a |-> 0, b1 |-> 0, b2 |-> 0],
    filter |-> [type |-> "Lowpass 4", attack |-> 41, decay |-> 70, sustain |-> 80,
                release |-> 106, frequency |-> 7868, resonance |-> 64, env_amount |-> 9],
    amp |-> [attack |-> 53, decay |-> 87, sustain |-> 76, release |-> 60, reset |-> TRUE,
             mode |-> "ADSR", pan |-> "Center", volume |-> 70],
    fx |-> [bit_reduction |-> FALSE, overdrive |-> 76, sample_rate_reduction |-> 0,
            sample_rate_routing |-> "Pre-filter", delay |-> FALSE, reverb |-> 127,
            chorus |-> 59, overdrive_routing |-> "Pre-filter"],
    lfo1 |-> [speed |-> 4001, multiplier |-> 16, fade |-> 0, destination |-> "SYN HARM",
              waveform |-> "Sine", start_phase |-> 10, mode |-> "Free", depth |-> -1034],
    lfo2 |-> [speed |-> 3273, multiplier |-> 32, fade |-> 0, destination |-> "SYN P2A4",
              waveform |-> "Triangle", start_phase |-> 0, mode |-> "Trig", depth |-> -16],
    lfo3 |-> [speed |-> 0, multiplier |-> 1, fade |-> 0, destination |-> "None",
              waveform |-> "Sine", start_phase |-> 0, mode |-> "Free", depth |-> 0],
    _extraction_info |-> ExtractionInfo(path, d) ]

\* the two bytes a field may hold: 0, 0x7FFF, -0x8000, -1
BytePairs == { <<0, 0>>, <<255, 127>>, <<0, 128>>, <<255, 255>> }

LfoOffsets == { LfoReads[n].offset : n \in 1..Len(LfoReads) }

\* a buffer of n bytes, zero except for the pair v[o] at each LFO offset o
PresetBuffer(n, v) ==
  [k \in 1..n |->
     IF \E o \in LfoOffsets : k - 1 \in {o, o + 1}
     THEN LET o == CHOOSE o \in LfoOffsets : k - 1 \in {o, o + 1} IN v[o][k - o]
     ELSE 0]

\* the empty file and every length from the first LFO offset on
PresetLens == {0} \cup (LFO1_SPEED_OFFSET .. MaxPresetLen)

PresetInputs == { PresetBuffer(n, v) : n \in PresetLens, v \in [LfoOffsets -> BytePairs] }

\* the call as a whole: it reads the file and returns the dict; the caller may
\* call a second time on the same file, previous is what the call before returned
ParsePreset ==
  /\ pc \in {"parse", "parsed"}
  /\ pc' = IF pc = "parse" THEN "parsed" ELSE "reparsed"
  /\ previous' = parameters
  /\ parameters' = parse_digitone_preset(BINARY_PATH, binary_data)
  /\ reads' = OffsetsRead(binary_data)
  /\ UNCHANGED <<binary_data, sysexVars, dumpVars, batchVars>>

----------------------------------------------------------------------------
(* extract_file_from_zip, extract_patches_from_directory and                *)
(* write_patches_to_markdown                                                *)

\* ".dn2pst", ".zip", ".txt", "manifest.json", "none"
EXT_DN2PST == <<46, 100, 110, 50, 112, 115, 116>>
EXT_ZIP == <<46, 122, 105, 112>>
EXT_TXT == <<46, 116, 120, 116>>
MANIFEST_JSON == <<109, 97, 110, 105, 102, 101, 115, 116, 46, 106, 115, 111, 110>>
NONE_TAGS == <<110, 111, 110, 101>>
\* the width of the rule write_patches_to_markdown puts after a block
RULE_WIDTH == 80
DASH == 45

\* JSON values as json.load returns them, and what it meets in a file that is
\* not JSON
JObject(members) == [type |-> "object", members |-> members, items |-> <<>>]
JNumber == [type |-> "number", members |-> <<>>, items |-> <<>>]
JArray(items) == [type |-> "array", members |-> <<>>, items |-> items]
NotJson == [type |-> "invalid", members |-> <<>>, items |-> <<>>]

\* a file: its bytes, and what json.load makes of it
File(bytes, json) == [bytes |-> bytes, json |-> json]

\* base names of the patch files: "a", "a-b", "b"
BaseNames == { <<97>>, <<97, 45, 98>>, <<98>> }

\* the tags a patch file carries in its own manifest: "T" and its base name
OwnTags(base) == << <<84>> \o base >>

\* the kinds of manifest.json an archive may hold: none, well-formed with Tags,
\* not JSON, without MetaInfo, MetaInfo without Tags, MetaInfo a number
ManifestKinds == {"absent", "tags", "not_json", "no_metainfo", "no_tags", "metainfo_number"}

\* the manifest of the given kind in the archive of base
ManifestOf(base, kind) ==
  CASE kind = "absent" -> [present |-> FALSE, json |-> NotJson]
    [] kind = "tags" ->
         [present |-> TRUE,
          json |-> JObject([MetaInfo |-> JObject([Tags |-> JArray(OwnTags(base))])])]
    [] kind = "not_json" -> [present |-> TRUE, json |-> NotJson]
    [] kind = "no_metainfo" -> [present |-> TRUE, json |-> JObject(<<>>)]
    [] kind = "no_tags" -> [present |-> TRUE, json |-> JObject([MetaInfo |-> JObject(<<>>)])]
    [] kind = "metainfo_number" -> [present |-> TRUE, json |-> JObject([MetaInfo |-> JNumber])]

\* "SOUND"
SOUND == <<83, 79, 85, 78, 68>>

\* None, for binary_name
NoEntry == <<>>

\* names of the binary entry: SOUND, or "b", the name of a patch file (as the
\* entry AUTOMATIC of AUTOMATIC.dn2prj)
EntryNames == { SOUND, <<98>> }

\* the kinds of .dn2pst file: one that is no zip archive, and archives with or
\* without a binary entry and with each kind of manifest
ArchiveKinds ==
  { [valid |-> FALSE, binary |-> NoEntry, manifest |-> "absent"] }
  \cup { [valid |-> TRUE, binary |-> e, manifest |-> m] :
           e \in {NoEntry} \cup EntryNames, m \in ManifestKinds }

\* the patch file of base and kind; the bytes of its binary entry are the base name
Archive(base, kind) ==
  [path |-> base \o EXT_DN2PST, valid |-> kind.valid, binary |-> kind.binary,
   bytes |-> (IF kind.binary = NoEntry THEN <<>> ELSE base),
   manifest |-> ManifestOf(base, kind.manifest)]

\* the directories: at most MaxFiles patch files with different names
Directories ==
  UNION { { { Archive(b, f[b]) : b \in B } : f \in [B -> ArchiveKinds] } :
            B \in { S \in SUBSET BaseNames : Cardinality(S) <= MaxFiles } }

\* a < b for two str, as Python compares them
RECURSIVE StrLess(_, _)
StrLess(a, b) ==
  IF b = <<>> THEN FALSE
  ELSE IF a = <<>> THEN TRUE
  ELSE IF Head(a) # Head(b) THEN Head(a) < Head(b)
  ELSE StrLess(Tail(a), Tail(b))

\* sorted(patch_files)
RECURSIVE Sorted(_)
Sorted(paths) ==
  IF paths = {} THEN <<>>
  ELSE LET lo == CHOOSE p \in paths : \A q \in paths \ {p} : StrLess(p, q)
       IN  <<lo>> \o Sorted(paths \ {lo})

\* os.path.splitext(os.path.basename(path))[0]: what stands before the last "."
BaseNameOf(path) ==
  LET dots == {k \in 1..Len(path) : path[k] = DOT} IN
  IF dots = {} THEN path
  ELSE SubSeq(path, 1, (CHOOSE k \in dots : \A m \in dots : m <= k) - 1)

\* the archive behind a path of the directory
ArchiveAt(path) == CHOOSE a \in patches_dir : a.path = path

\* zip_ref.extractall(extract_subdir): every entry is written over what the
\* directory holds under its name
ExtractAll(dir, a) ==
  LET written == (IF a.binary = NoEntry THEN <<>>
                  ELSE (a.binary :> File(a.bytes, NotJson)))
                 @@ (IF a.manifest.present
                     THEN (MANIFEST_JSON :> File(<<>>, a.manifest.json))
                     ELSE <<>>)
  IN  written @@ dir

NoRaise == [type |-> "None"]

\* the try block of extract_file_from_zip for archive a, the text file being
\* writable or not: the directory afterwards, what is returned, what is raised
TryBody(dir, a, writable) ==
  LET base_name == BaseNameOf(a.path)
      extracted == ExtractAll(dir, a)
      bin_path == IF a.binary # NoEntry THEN a.binary ELSE base_name
      txt_path == base_name \o EXT_TXT
  IN  IF ~a.valid
      THEN [dir |-> dir, binary_path |-> NoEntry, text_path |-> NoEntry,
            raised |-> [type |-> "BadZipFile"]]
      ELSE IF bin_path \notin DOMAIN extracted
      THEN [dir |-> extracted, binary_path |-> NoEntry, text_path |-> NoEntry,
            raised |-> [type |-> "FileNotFoundError"]]
      ELSE IF ~writable
      THEN [dir |-> extracted, binary_path |-> NoEntry, text_path |-> NoEntry,
            raised |-> [type |-> "PermissionError"]]
      ELSE [dir |-> (txt_path :> File(extract_readable_text_from_binary(
                                        extracted[bin_path].bytes), NotJson))
                      @@ extracted,
            binary_path |-> bin_path, text_path |-> txt_path, raised |-> NoRaise]

\* the manifest part of the loop body: the tags of the entry, or what is raised
\*   if os.path.exists(manifest_path): try: json.load ... except (JSONDecodeError, IOError)
ManifestTags(dir) ==
  IF MANIFEST_JSON \notin DOMAIN dir THEN [tags |-> <<>>, raised |-> NoRaise]
  ELSE LET manifest_data == dir[MANIFEST_JSON].json IN
       IF manifest_data.type = "invalid" THEN [tags |-> <<>>, raised |-> NoRaise]
       ELSE IF "MetaInfo" \notin DOMAIN manifest_data.members
       THEN [tags |-> <<>>, raised |-> NoRaise]
       ELSE LET meta == manifest_data.members["MetaInfo"] IN
            IF meta.type = "number"
            THEN [tags |-> <<>>, raised |-> [type |-> "TypeError"]]
            ELSE IF "Tags" \notin DOMAIN meta.members
            THEN [tags |-> <<>>, raised |-> NoRaise]
            ELSE [tags |-> meta.members["Tags"].items, raised |-> NoRaise]

\* the writes of write_patches_to_markdown for one patch
BatchBlock(p) ==
  LABEL_NAME \o p.name \o <<NEWLINE>>
    \o LABEL_TAGS
    \o (IF p.tags # <<>> THEN Join(p.tags, TAG_SEPARATOR) ELSE NONE_TAGS)
    \o <<NEWLINE>>
    \o LABEL_BINARY \o <<NEWLINE, NEWLINE>>
    \o p.binary_content \o <<NEWLINE, NEWLINE>>
    \o [k \in 1..RULE_WIDTH |-> DASH] \o <<NEWLINE, NEWLINE>>

\* what write_patches_to_markdown writes for a list of patches
write_patches_to_markdown(ps) == Concat([k \in 1..Len(ps) |-> BatchBlock(ps[k])])

\* if not patch_files: return [], nothing is written
ReturnNoPatchFiles ==
  /\ pc = "batch"
  /\ patches_dir = {}
  /\ pc' = "batch_returned"
  /\ UNCHANGED <<patches_dir, patch_files, file_index, zip_files, extract_subdir,
                 results, output_md, raised, binary_path, text_path,
                 sysexVars, presetVars, dumpVars>>

\* glob and sorted(patch_files), the loop starts at the first path
SortPatchFiles ==
  /\ pc = "batch"
  /\ patches_dir # {}
  /\ pc' = "copy"
  /\ patch_files' = Sorted({a.path : a \in patches_dir})
  /\ file_index' = 1
  /\ UNCHANGED <<patches_dir, zip_files, extract_subdir, results, output_md, raised,
                 binary_path, text_path, sysexVars, presetVars, dumpVars>>

\* extract_file_from_zip up to the try: shutil.copy2(file_path, zip_path)
CopyToZip ==
  /\ pc = "copy"
  /\ pc' = "try"
  /\ zip_files' = zip_files \cup {BaseNameOf(patch_files[file_index]) \o EXT_ZIP}
  /\ UNCHANGED <<patches_dir, patch_files, file_index, extract_subdir, results,
                 output_md, raised, binary_path, text_path,
                 sysexVars, presetVars, dumpVars>>

\* the try block: it returns the two paths or leaves with an exception
TryExtract ==
  /\ pc = "try"
  /\ pc' = "finally"
  /\ \E writable \in BOOLEAN :
       LET r == TryBody(extract_subdir, ArchiveAt(patch_files[file_index]), writable) IN
       /\ extract_subdir' = r.dir
       /\ binary_path' = r.binary_path
       /\ text_path' = r.text_path
       /\ raised' = r.raised
  /\ UNCHANGED <<patches_dir, patch_files, file_index, zip_files, results, output_md,
                 sysexVars, presetVars, dumpVars>>

\* faulty variant of Finally: the zip file is removed on the normal path only
FinallyOnReturnOnly ==
  /\ pc = "finally"
  /\ zip_files' = IF raised = NoRaise
                  THEN zip_files \ {BaseNameOf(patch_files[file_index]) \o EXT_ZIP}
                  ELSE zip_files
  /\ pc' = IF raised = NoRaise THEN "metadata" ELSE "batch_raised"
  /\ UNCHANGED <<patches_dir, patch_files, file_index, extract_subdir, results,
                 output_md, raised, binary_path, text_path,
                 sysexVars, presetVars, dumpVars>>

\* finally: os.remove(zip_path); then the call returns, or the exception goes
\* on through extract_patches_from_directory, which does not catch it
Finally ==
  /\ pc = "finally"
  /\ zip_files' = zip_files \ {BaseNameOf(patch_files[file_index]) \o EXT_ZIP}
  /\ pc' = IF raised = NoRaise THEN "metadata" ELSE "batch_raised"
  /\ UNCHANGED <<patches_dir, patch_files, file_index, extract_subdir, results,
                 output_md, raised, binary_path, text_path,
                 sysexVars, presetVars, dumpVars>>

\* the rest of the loop body: the text is read back, the manifest of the
\* directory is looked at, the entry is appended; then the next file
ReadMetadata ==
  /\ pc = "metadata"
  /\ LET m == ManifestTags(extract_subdir)
         patch_metadata ==
           [name |-> BaseNameOf(patch_files[file_index]),
            tags |-> m.tags,
            binary_content |-> extract_subdir[text_path].bytes,
            binary_path |-> binary_path,
            text_path |-> text_path]
     IN  /\ raised' = m.raised
         /\ results' = IF m.raised = NoRaise THEN Append(results, patch_metadata)
                       ELSE results
         /\ pc' = IF m.raised # NoRaise THEN "batch_raised"
                  ELSE IF file_index < Len(patch_files) THEN "copy" ELSE "write"
         /\ file_index' = IF m.raised = NoRaise /\ file_index < Len(patch_files)
                          THEN file_index + 1 ELSE file_index
  /\ UNCHANGED <<patches_dir, patch_files, zip_files, extract_subdir, output_md,
                 binary_path, text_path, sysexVars, presetVars, dumpVars>>

\* write_patches_to_markdown(results, output_markdown_path); return results
WritePatchesToMarkdown ==
  /\ pc = "write"
  /\ pc' = "batch_returned"
  /\ output_md' = [exists |-> TRUE, content |-> write_patches_to_markdown(results)]
  /\ UNCHANGED <<patches_dir, patch_files, file_index, zip_files, extract_subdir,
                 results, raised, binary_path, text_path,
                 sysexVars, presetVars, dumpVars>>

----------------------------------------------------------------------------
(* The specification *)

InitSysex ==
  /\ pc = "scan"
  /\ data \in SysexInputs
  /\ append \in BOOLEAN
  /\ mdFile \in MdFiles
  /\ binary_data = <<>>
  /\ dump_data = <<>>
  /\ patches_dir = {}

InitPreset ==
  /\ pc = "parse"
  /\ binary_data \in PresetInputs
  /\ data = <<>>
  /\ append = FALSE
  /\ mdFile = Absent
  /\ dump_data = <<>>
  /\ patches_dir = {}

InitDump ==
  /\ pc \in {"readable", "hexdump"}
  /\ dump_data \in DumpInputs
  /\ data = <<>>
  /\ append = FALSE
  /\ mdFile = Absent
  /\ binary_data = <<>>
  /\ patches_dir = {}

InitBatch ==
  /\ pc = "batch"
  /\ patches_dir \in Directories
  /\ data = <<>>
  /\ append = FALSE
  /\ mdFile = Absent
  /\ binary_data = <<>>
  /\ dump_data = <<>>

Init ==
  /\ (InitSysex \/ InitPreset \/ InitDump \/ InitBatch)
  /\ patch_files = <<>>
  /\ file_index = 0
  /\ zip_files = {}
  /\ extract_subdir = <<>>
  /\ results = <<>>
  /\ output_md = Absent
  /\ raised = NoRaise
  /\ binary_path = NoEntry
  /\ text_path = NoEntry
  /\ dump_text = NoText
  /\ i = 0
  /\ patches = <<>>
  /\ frames = <<>>
  /\ mdBefore = mdFile
  /\ error = NoError
  /\ parameters = NoParameters
  /\ previous = NoParameters
  /\ reads = {}

Next ==
  \/ FoundPatch
  \/ UnterminatedStart
  \/ SkipByte
  \/ RaiseNoPatches
  \/ WriteMarkdown
  \/ ParsePreset
  \/ ExtractReadableText
  \/ FormatHexDump
  \/ ReturnNoPatchFiles
  \/ SortPatchFiles
  \/ CopyToZip
  \/ TryExtract
  \/ Finally
  \/ ReadMetadata
  \/ WritePatchesToMarkdown

Spec == Init /\ [][Next]_vars

----------------------------------------------------------------------------
(* Properties of find_patches and extract_sysex_patches_to_markdown *)

SysexEnded == pc \in {"raised", "written"}

\* some 0xF0 is followed, somewhere, by a 0xF7
HasFrame(d) ==
  \E a \in 0..(Len(d) - 1) : \E b \in (a + 1)..(Len(d) - 1) :
    At(d, a) = SYSEX_START /\ At(d, b) = SYSEX_END

\* the smallest offset > s holding 0xF7
NearestEnd(d, s) ==
  CHOOSE j \in (s + 1)..(Len(d) - 1) :
    /\ At(d, j) = SYSEX_END
    /\ \A m \in (s + 1)..(j - 1) : At(d, m) # SYSEX_END

\* C1: whenever the scan cursor is on a 0xF0 at offset i and a 0xF7 exists at a
\* greater offset, the step appends exactly one frame whose data is the inclusive
\* span [i, j], j the smallest offset > i holding 0xF7: it starts with 0xF0, ends
\* with 0xF7 and has no 0xF7 before its last byte.
C1_FrameIsNearestSpan ==
  [][ ( /\ pc = "scan"
        /\ i < Len(data)
        /\ At(data, i) = SYSEX_START
        /\ \E k \in (i + 1)..(Len(data) - 1) : At(data, k) = SYSEX_END )
      => LET j == NearestEnd(data, i)
             fr == patches'[Len(patches')].data
         IN  /\ Len(patches') = Len(patches) + 1
             /\ SubSeq(patches', 1, Len(patches)) = patches
             /\ fr = [n \in 1..(j - i + 1) |-> At(data, i + n - 1)]
             /\ fr[1] = SYSEX_START
             /\ fr[Len(fr)] = SYSEX_END
             /\ \A n \in 1..(Len(fr) - 1) : fr[n] # SYSEX_END ]_vars

\* a frame was cut at the first of several 0xF7 bytes that follow its 0xF0
C1_Witness ==
  /\ Len(frames) >= 1
  /\ \E k \in (frames[1].end + 1)..(Len(data) - 1) : At(data, k) = SYSEX_END
  /\ Len(patches[1].data) > 2

\* C2: a buffer in which the scan finds no frame makes the call end in the
\* ValueError "No valid patches found in SysEx file", and the output file is
\* never touched: it is as before the call, in append and in overwrite mode.
C2_NoFramesRaisesFileUntouched ==
  (pc \in {"scan", "raised", "written"} /\ ~HasFrame(data)) =>
    /\ mdFile = mdBefore
    /\ patches = <<>>
    /\ SysexEnded => (pc = "raised" /\ error = NoPatchesError)

\* the call raised on a buffer with an unterminated 0xF0 while earlier blocks
\* were in the file and the mode was overwrite
C2_Witness ==
  /\ pc = "raised"
  /\ \E k \in 0..(Len(data) - 1) : At(data, k) = SYSEX_START
  /\ mdBefore.content # <<>>
  /\ ~append

\* the offset of the last 0xF7 of the buffer
LastEnd(d) ==
  CHOOSE j \in 0..(Len(d) - 1) :
    /\ At(d, j) = SYSEX_END
    /\ \A m \in (j + 1)..(Len(d) - 1) : At(d, m) # SYSEX_END

TruncateAfterLastEnd(d) == SubSeq(d, 1, LastEnd(d) + 1)

\* C3: for a buffer with at least one complete frame the call succeeds and the
\* frames it returns are the frames of the same buffer cut just after its last
\* 0xF7: a 0xF0 with no 0xF7 after it starts no frame and raises nothing.
C3_TrailingStartIgnored ==
  (SysexEnded /\ HasFrame(data)) =>
    /\ pc = "written"
    /\ error = NoError
    /\ patches = find_patches(TruncateAfterLastEnd(data))

\* the call ended on a buffer with a 0xF0 after its last 0xF7
C3_Witness ==
  /\ pc = "written"
  /\ \E k \in (LastEnd(data) + 1)..(Len(data) - 1) : At(data, k) = SYSEX_START

\* the bytes of the field at frame offset off, len long, of the frame [s, j]:
\* the field stops before the closing 0xF7
Field(d, s, j, off, len) ==
  IF j <= s + off THEN <<>>
  ELSE [n \in 1..(Min(s + off + len, j) - (s + off)) |-> At(d, s + off + n - 1)]

\* the printable bytes among the two bytes at frame offset 0x18
PrintablePrefix(d, s, j) == SelectSeq(Field(d, s, j, 24, 2), IsPrintable)

\* "{prefix}. {name}" with a prefix, "{name}" without
Label(prefix, name) == IF Len(prefix) > 0 THEN prefix \o <<46, 32>> \o name ELSE name

\* s without its leading and trailing spaces
TrimSpaces(s) ==
  LET keep == {n \in 1..Len(s) : s[n] # 32} IN
  IF keep = {} THEN <<>>
  ELSE SubSeq(s, CHOOSE n \in keep : \A m \in keep : n <= m,
                 CHOOSE n \in keep : \A m \in keep : m <= n)

\* the label of frame k as the claim composes it
LabelOf(k) ==
  Label(PrintablePrefix(data, frames[k].start, frames[k].end), frames[k].main_name)

\* C4 as stated: the rendered patch label is exactly "{prefix}. {name}" when the
\* prefix is not empty and exactly "{name}" otherwise.
C4_LabelExact ==
  \A k \in 1..Len(patches) : patches[k].name = LabelOf(k)

\* C4 as amended: the rendered patch label is "{prefix}. {name}" (prefix not
\* empty) or "{name}" (prefix empty) with its leading and trailing spaces
\* removed; without such spaces it is exactly that text, as in "BD. TEST".
C4_LabelStripped ==
  \A k \in 1..Len(patches) :
    /\ patches[k].name = TrimSpaces(LabelOf(k))
    /\ (LabelOf(k)[1] # 32 /\ LabelOf(k)[Len(LabelOf(k))] # 32)
         => patches[k].name = LabelOf(k)

\* a frame with a prefix whose label lost a space at one end
C4_Witness ==
  /\ pc = "written"
  /\ \E k \in 1..Len(patches) :
       /\ frames[k].prefix # <<>>
       /\ patches[k].name # LabelOf(k)

\* the example of the claim: prefix bytes BD and name bytes TEST give "BD. TEST"
ExampleLabelSeen ==
  \E k \in 1..Len(patches) :
    /\ frames[k].prefix = <<66, 68>>
    /\ frames[k].main_name = <<84, 69, 83, 84>>
    /\ patches[k].name = <<66, 68, 46, 32, 84, 69, 83, 84>>

\* the name field of frame k: up to 8 bytes from frame offset 0x1C
NameField(k) == Field(data, frames[k].start, frames[k].end, 28, 8)

\* the longest run of printable bytes at the start of f
PrintableRun(f) ==
  SubSeq(f, 1, CHOOSE n \in 0..Len(f) :
                 /\ \A m \in 1..n : IsPrintable(f[m])
                 /\ (n < Len(f) => ~IsPrintable(f[n + 1])))

\* the printable bytes of f that come before its first null byte
PrintableBeforeNul(f) ==
  LET nuls == {n \in 1..Len(f) : f[n] = 0}
      stop == IF nuls = {} THEN Len(f) + 1 ELSE CHOOSE n \in nuls : \A m \in nuls : n <= m
  IN  SelectSeq(SubSeq(f, 1, stop - 1), IsPrintable)

OrUnknown(s) == IF s = <<>> THEN UNKNOWN ELSE s

\* C5 as stated: the name is the longest run of printable bytes starting at
\* 0x1C: the first null or non-printable byte ends it.
C5_NameEndsAtNonPrintable ==
  \A k \in 1..Len(frames) : frames[k].main_name = OrUnknown(PrintableRun(NameField(k)))

\* C5 as amended: only the first null byte ends the name field early; any other
\* non-printable byte is skipped and the printable bytes after it still count.
\* The name is the printable bytes of the field (up to 8 bytes from 0x1C, before
\* the closing 0xF7) that come before its first null byte.
C5_NameEndsAtNul ==
  \A k \in 1..Len(frames) :
    frames[k].main_name = OrUnknown(PrintableBeforeNul(NameField(k)))

\* a frame whose name holds a printable byte that follows a non-printable,
\* non-null byte of the field
C5_Witness ==
  \E k \in 1..Len(frames) :
    /\ PrintableRun(NameField(k)) # PrintableBeforeNul(NameField(k))
    /\ frames[k].main_name # UNKNOWN
    /\ \E n \in 1..Len(NameField(k)) : NameField(k)[n] = 0

\* the keyword groups in priority order, each with the SAMPLE_TAGS key it selects
KeywordGroups ==
  << [kws |-> {KW_KICK, KW_BASS},   key |-> "KICK"],
     [kws |-> {KW_SNARE, KW_DRUM},  key |-> "SNARE"],
     [kws |-> {KW_BASS, KW_LOW},    key |-> "BASS"],
     [kws |-> {KW_BRASS, KW_HORN},  key |-> "BRASS"],
     [kws |-> {KW_STRING, KW_PAD},  key |-> "STRING"],
     [kws |-> {KW_PERC, KW_TOM},    key |-> "PERC"],
     [kws |-> {KW_LIGHT, KW_SOFT},  key |-> "LIGHT"],
     [kws |-> {KW_HARD, KW_TOUGH},  key |-> "HARD"] >>

\* a and b are the same letter, whatever the case
SameLetter(a, b) ==
  \/ a = b
  \/ (65 <= a /\ a <= 90 /\ b = a + 32)
  \/ (65 <= b /\ b <= 90 /\ a = b + 32)

\* kw occurs in label, case ignored
OccursIgnoringCase(label, kw) ==
  \E n \in 0..(Len(label) - Len(kw)) :
    \A m \in 1..Len(kw) : SameLetter(label[n + m], kw[m])

\* the groups one of whose keywords occurs in the label
Matching(label) ==
  { g \in 1..Len(KeywordGroups) :
      \E kw \in KeywordGroups[g].kws : OccursIgnoringCase(label, kw) }

FirstOf(S) == CHOOSE g \in S : \A h \in S : g <= h

\* C6: a frame whose rendered label matches a keyword group (case ignored) has
\* the three tags of the first matching group in priority order, whatever later
\* groups match; a label containing BASS has KICK, PERC, DEEP.
C6_FirstMatchingGroupWins ==
  \A k \in 1..Len(patches) :
    LET m == Matching(patches[k].name) IN
    /\ m # {} => patches[k].tags = TagsOf(KeywordGroups[FirstOf(m)].key)
    /\ OccursIgnoringCase(patches[k].name, KW_BASS)
         => patches[k].tags = <<"KICK", "PERC", "DEEP">>

\* a frame whose label matches two groups, and one matched in lower case
C6_Witness ==
  /\ pc = "written"
  /\ \E k \in 1..Len(patches) : Cardinality(Matching(patches[k].name)) >= 2
  /\ \E k \in 1..Len(patches) :
       Matching(patches[k].name) # {} /\ Upper(patches[k].name) # patches[k].name

\* C7: a frame whose label matches no keyword group has the tags at index
\* n mod 9 of the nine SAMPLE_TAGS lists, n the number of frames found before it;
\* every frame has three tags, and a second scan of the buffer gives the same
\* frames with the same tags.
C7_RoundRobinFallback ==
  /\ \A k \in 1..Len(patches) :
       /\ Matching(patches[k].name) = {}
            => patches[k].tags = SAMPLE_TAGS[((k - 1) % 9) + 1].tags
       /\ Len(patches[k].tags) = 3
  /\ Len(SAMPLE_TAGS) = 9
  /\ SysexEnded => patches = find_patches(data)

\* an unmatched frame with at least nine frames before it, one of them matched
C7_Witness ==
  \E k \in 10..Len(patches) :
    /\ Matching(patches[k].name) = {}
    /\ \E m \in 1..(k - 1) : Matching(patches[m].name) # {}

----------------------------------------------------------------------------
(* Properties of parse_digitone_preset *)

\* the first length at which every 2-byte field is inside the buffer
FullPresetLen == LFO2_DEPTH_OFFSET + 2

\* C8: a buffer too short for one of the 2-byte fields at 0xC4, 0xCC, 0xCE and
\* 0xD6 makes the call fail with an error and return no record.
C8_ShortBufferFails ==
  (pc = "parsed" /\ \E o \in LfoOffsets : o + 2 > Len(binary_data)) =>
    /\ error # NoError
    /\ parameters = NoParameters

\* the fields the claim calls decodable
KnownFields ==
  { "algo", "harm", "dtun", "fdbk", "mix",
    "lfo1_speed", "lfo1_depth", "lfo2_speed", "lfo2_depth" }

\* the offset the function assigns to a field, for the fields it has one for
ReadOffsetOf ==
  ("lfo1_speed" :> LFO1_SPEED_OFFSET) @@ ("lfo1_depth" :> LFO1_DEPTH_OFFSET)
    @@ ("lfo2_speed" :> LFO2_SPEED_OFFSET) @@ ("lfo2_depth" :> LFO2_DEPTH_OFFSET)

RawKeyOf ==
  ("lfo1_speed" :> "lfo1_speed_raw") @@ ("lfo1_depth" :> "lfo1_depth_raw")
    @@ ("lfo2_speed" :> "lfo2_speed_raw") @@ ("lfo2_depth" :> "lfo2_depth_raw")

\* the value the record holds under the field's name
ValueOf(p, f) ==
  CASE f = "algo" -> p.algo
    [] f = "harm" -> p.harm
    [] f = "dtun" -> p.dtun
    [] f = "fdbk" -> p.fdbk
    [] f = "mix" -> p.mix
    [] f = "lfo1_speed" -> p.lfo1.speed
    [] f = "lfo1_depth" -> p.lfo1.depth
    [] f = "lfo2_speed" -> p.lfo2.speed
    [] f = "lfo2_depth" -> p.lfo2.depth

\* C9: for every known decodable field the call reads the raw value from the
\* buffer at the field's offset and stores the scaled raw value under the
\* field's name; a linear scale rule stores 0 for the raw value 0.
C9_FieldsDecodedFromBuffer ==
  (pc = "parsed" /\ Len(binary_data) >= FullPresetLen) =>
    \A f \in KnownFields :
      /\ f \in DOMAIN ReadOffsetOf
      /\ ReadOffsetOf[f] \in reads
      /\ parameters._extraction_info[RawKeyOf[f]] = 0 => ValueOf(parameters, f) = 0

\* lo + 256 * hi, minus 0x10000 from 0x8000 on
SignedLE16(lo, hi) ==
  IF lo + 256 * hi >= 32768 THEN lo + 256 * hi - 65536 ELSE lo + 256 * hi

RawKeys == { LfoReads[n].key : n \in 1..Len(LfoReads) }

\* C10 as stated: for a buffer of at least 0xD8 bytes _extraction_info records,
\* for every decoded field, its raw value and the offset it was read from.
C10_InfoHasRawAndOffset ==
  (pc = "parsed" /\ Len(binary_data) >= FullPresetLen) =>
    \A n \in 1..Len(LfoReads) :
      LET info == parameters._extraction_info IN
      /\ LfoReads[n].key \in DOMAIN info
      /\ \E k \in DOMAIN info \ {"binary_file", "binary_size"} :
           k # LfoReads[n].key /\ info[k] = LfoReads[n].offset

\* C10 as amended: _extraction_info holds binary_file, binary_size and, for each
\* LFO field the call read (lfo1/lfo2 speed and depth, read when offset + 2 <=
\* len(buffer)), the key "<field>_raw" with the pre-scale raw value; it records
\* no source offset.  A buffer of at least 0xD8 bytes has all four raw entries.
C10_InfoHasRawOnly ==
  pc = "parsed" =>
    LET info == parameters._extraction_info IN
    /\ DOMAIN info \subseteq {"binary_file", "binary_size"} \cup RawKeys
    /\ info["binary_file"] = BINARY_PATH
    /\ info["binary_size"] = Len(binary_data)
    /\ \A n \in 1..Len(LfoReads) :
         LET o == LfoReads[n].offset IN
         /\ LfoReads[n].key \in DOMAIN info <=> o + 2 <= Len(binary_data)
         /\ o + 2 <= Len(binary_data) =>
              info[LfoReads[n].key] = SignedLE16(At(binary_data, o), At(binary_data, o + 1))
    /\ Len(binary_data) >= 216 => RawKeys \subseteq DOMAIN info

\* a buffer of exactly 0xD8 bytes whose last field holds a negative raw value
C10_Witness ==
  /\ pc = "parsed"
  /\ Len(binary_data) = 216
  /\ parameters._extraction_info["lfo2_depth_raw"] < 0
  /\ parameters._extraction_info["lfo1_speed_raw"] > 0

EncodeLE16(v) == << (v % 65536) % 256, (v % 65536) \div 256 >>

\* C12: every 2-byte signed read at 0xC4, 0xCC, 0xCE, 0xD6 that is inside the
\* buffer is little-endian two's complement: the raw value is lo + 256 * hi,
\* minus 0x10000 from 0x8000 on, lies in -32768..32767 and encodes back to the
\* two bytes it was read from.
C12_SignedLittleEndianRoundTrip ==
  pc = "parsed" =>
    \A n \in 1..Len(LfoReads) :
      LET o == LfoReads[n].offset IN
      o + 2 <= Len(binary_data) =>
        LET lo == At(binary_data, o)
            hi == At(binary_data, o + 1)
            raw == parameters._extraction_info[LfoReads[n].key]
        IN  /\ raw = (IF lo + 256 * hi >= 32768 THEN lo + 256 * hi - 65536
                                                 ELSE lo + 256 * hi)
            /\ -32768 <= raw /\ raw <= 32767
            /\ EncodeLE16(raw) = <<lo, hi>>

\* reads of 0x8000 (the least value) and of 0x7FFF (the greatest) in one call
C12_Witness ==
  /\ pc = "parsed"
  /\ \E k \in RawKeys : k \in DOMAIN parameters._extraction_info
                         /\ parameters._extraction_info[k] = -32768
  /\ \E k \in RawKeys : k \in DOMAIN parameters._extraction_info
                         /\ parameters._extraction_info[k] = 32767

----------------------------------------------------------------------------
(* Properties of the hex-dump formatters *)

\* the positions of the newlines of a text, ascending
NewlinesOf(t) == SelectSeq([k \in 1..Len(t) |-> k], LAMBDA k : t[k] = NEWLINE)

\* the lines of a text: the pieces between newlines, none for the empty text
SplitLines(t) ==
  IF t = <<>> THEN <<>>
  ELSE LET nl == NewlinesOf(t) IN
       [k \in 1..(Len(nl) + 1) |->
          SubSeq(t, IF k = 1 THEN 1 ELSE nl[k - 1] + 1,
                    IF k = Len(nl) + 1 THEN Len(t) ELSE nl[k] - 1)]

DumpLines == SplitLines(dump_text.text)

IsHexDigit(c) ==
  (48 <= c /\ c <= 57) \/ (65 <= c /\ c <= 70) \/ (97 <= c /\ c <= 102)

HexDigitValue(c) ==
  IF c <= 57 THEN c - 48 ELSE IF c <= 70 THEN c - 55 ELSE c - 87

\* the number a string of hex digits denotes
RECURSIVE HexNumber(_)
HexNumber(s) ==
  IF s = <<>> THEN 0
  ELSE 16 * HexNumber(SubSeq(s, 1, Len(s) - 1)) + HexDigitValue(s[Len(s)])

\* the least q with 16 * q >= n
CeilDiv16(n) == CHOOSE q \in 0..n : 16 * q >= n /\ (q = 0 \/ 16 * (q - 1) < n)

\* C13: both formatters emit exactly ceil(n/16) lines for n bytes, line k (from
\* 0) starting with the 8-hex-digit offset 16 * k; the empty buffer gives the
\* empty string, 16 bytes one line, 17 bytes two lines.
C13_LineCountAndOffsets ==
  dump_text.returned =>
    /\ Len(DumpLines) = CeilDiv16(Len(dump_data))
    /\ \A k \in 1..Len(DumpLines) :
         /\ Len(DumpLines[k]) > 8
         /\ \A c \in 1..8 : IsHexDigit(DumpLines[k][c])
         /\ ~IsHexDigit(DumpLines[k][9])
         /\ HexNumber(SubSeq(DumpLines[k], 1, 8)) = 16 * (k - 1)
    /\ (Len(dump_data) = 0 => dump_text.text = <<>>)
    /\ (Len(dump_data) = 16 => Len(DumpLines) = 1)
    /\ (Len(dump_data) = 17 => Len(DumpLines) = 2)

\* the long buffer went through format_hex_dump: twelve lines, the last at b0
C13_Witness ==
  /\ pc = "formatted"
  /\ Len(dump_data) = LongDumpLen
  /\ Len(DumpLines) = 12
  /\ SubSeq(DumpLines[12], 1, 8) = <<48, 48, 48, 48, 48, 48, 66, 48>>

\* the position of the first "|" of a line
FirstBar(line) == CHOOSE n \in 1..Len(line) :
                    line[n] = BAR /\ \A m \in 1..(n - 1) : line[m] # BAR

\* what stands between the first "|" and the closing "|" of a line
AsciiColumn(line) == SubSeq(line, FirstBar(line) + 1, Len(line) - 1)

\* the bytes line k (from 1) is about
ChunkOf(k) == Slice(dump_data, CHUNK * (k - 1), CHUNK * k)

\* C14: in every dump line the ASCII column holds, in order, one character per
\* byte of the chunk, the byte's own character for 0x20..0x7E and "." for all
\* other values, and nothing but blank padding after them; sixteen bytes
\* 0x41..0x50 give exactly ABCDEFGHIJKLMNOP.
C14_AsciiColumn ==
  dump_text.returned =>
    /\ \A k \in 1..Len(DumpLines) :
         LET line == DumpLines[k]
             col == AsciiColumn(line)
             chunk == ChunkOf(k)
         IN  /\ line[Len(line)] = BAR
             /\ Len(col) >= Len(chunk)
             /\ \A n \in 1..Len(chunk) :
                  col[n] = (IF 32 <= chunk[n] /\ chunk[n] <= 126 THEN chunk[n] ELSE DOT)
             /\ \A n \in (Len(chunk) + 1)..Len(col) : col[n] = SPACE
    /\ (dump_data = Letters(16) =>
          AsciiColumn(DumpLines[1]) =
            <<65, 66, 67, 68, 69, 70, 71, 72, 73, 74, 75, 76, 77, 78, 79, 80>>)

\* extract_readable_text_from_binary wrote a line for sixteen bytes lying on
\* both sides of the printable range: own characters and dots, in order
C14_Witness ==
  /\ pc = "read"
  /\ dump_data = EdgeBytes(16)
  /\ AsciiColumn(DumpLines[1]) = <<46, 32, 126, 46, 46, 46, 124, 46,
                                   46, 32, 126, 46, 46, 46, 124, 46>>

\* a line of extract_readable_text_from_binary for a full chunk
FullLine == extract_readable_text_from_binary(Letters(CHUNK))

\* C15: in the dump of extract_readable_text_from_binary a final chunk of 1 to
\* 15 bytes is padded so that the last line is as long as a full line, with a
\* hex part of the same width and the ASCII column at the same positions.
C15_ShortChunkAligned ==
  (pc = "read" /\ Len(dump_data) % CHUNK # 0) =>
    LET last == DumpLines[Len(DumpLines)] IN
    /\ Len(last) = Len(FullLine)
    /\ FirstBar(last) = FirstBar(FullLine)
    /\ Len(AsciiColumn(last)) = Len(AsciiColumn(FullLine))

----------------------------------------------------------------------------
(* Properties of the SysEx report *)

\* what this call added to the file: all of it with "w", the part behind the
\* previous content with "a"
Written ==
  IF append THEN SubSeq(mdFile.content, Len(mdBefore.content) + 1, Len(mdFile.content))
  ELSE mdFile.content

StartsWith(line, label) ==
  Len(line) >= Len(label) /\ SubSeq(line, 1, Len(label)) = label

\* the lines of t that start with label, in order
Labelled(t, label) == SelectSeq(SplitLines(t), LAMBDA line : StartsWith(line, label))

\* the patch names a report text lists, in order
NamesIn(t) ==
  LET ls == Labelled(t, LABEL_NAME) IN
  [k \in 1..Len(ls) |-> SubSeq(ls[k], Len(LABEL_NAME) + 1, Len(ls[k]))]

\* C18: after a successful call with append=True the previous content of the
\* output file is an unchanged prefix and the blocks of this call follow it;
\* with append=False the file holds only the blocks of this call, one per
\* frame in scan order.
C18_AppendKeepsPrefix ==
  pc = "written" =>
    /\ append =>
         /\ Len(mdFile.content) >= Len(mdBefore.content)
         /\ SubSeq(mdFile.content, 1, Len(mdBefore.content)) = mdBefore.content
    /\ ~append => Len(NamesIn(mdFile.content)) = Len(frames)
    /\ NamesIn(Written) = [k \in 1..Len(frames) |-> TrimSpaces(frames[k].name)]

\* two frames were appended behind the block of an earlier call
C18_Witness ==
  /\ pc = "written"
  /\ append
  /\ Len(NamesIn(mdBefore.content)) = 1
  /\ Len(frames) = 2
  /\ Len(NamesIn(mdFile.content)) = 3

\* the bytes a line of format_hex_dump shows in its hex part: up to sixteen
\* two-digit values, three columns apart from column 11 on
BytesOfLine(line) ==
  LET n == Cardinality({k \in 1..CHUNK : line[8 + 3 * k] # SPACE}) IN
  [k \in 1..n |-> HexNumber(SubSeq(line, 8 + 3 * k, 9 + 3 * k))]

\* the lines from a to b (from 1, inclusive) of a list of lines
LinesBetween(ls, a, b) == IF b < a THEN <<>> ELSE SubSeq(ls, a, b)

\* the numbers of the lines of ls that start a block, ascending
NameLineNumbers(ls) ==
  SelectSeq([k \in 1..Len(ls) |-> k], LAMBDA k : StartsWith(ls[k], LABEL_NAME))

\* the blocks of what was written: block n runs from its name line to the line
\* before the next name line, or to the end
Blocks ==
  LET ls == SplitLines(Written)
      at == NameLineNumbers(ls)
  IN  [n \in 1..Len(at) |->
         LinesBetween(ls, at[n], IF n = Len(at) THEN Len(ls) ELSE at[n + 1] - 1)]

IsRule(line) == Len(line) >= 3 /\ \A k \in 1..Len(line) : line[k] = 45

\* the labelled lines and the dump of the block b are those of frame n
BlockIsFrame(b, n) ==
  LET bytes == Slice(data, frames[n].start, frames[n].end + 1)
      dump == LinesBetween(b, 5, 4 + CeilDiv16(Len(bytes)))
  IN  /\ Len(b) >= 4 + CeilDiv16(Len(bytes))
      /\ b[1] = LABEL_NAME \o TrimSpaces(frames[n].name)
      /\ b[2] = LABEL_TAGS \o Join([k \in 1..Len(patches[n].tags) |->
                                      TAG_CHARS[patches[n].tags[k]]], TAG_SEPARATOR)
      /\ b[3] = LABEL_BINARY
      /\ b[4] = <<>>
      /\ Concat([k \in 1..Len(dump) |-> BytesOfLine(dump[k])]) = bytes

\* the rule lines of a block
RulesOf(b) == SelectSeq(b, IsRule)

\* C19 as stated: one block per frame in frame order, each the three labelled
\* lines and the frame's hex dump, and between consecutive blocks a rule line
\* of fixed width.
C19_BlocksSeparatedByRule ==
  pc = "written" =>
    LET bs == Blocks IN
    /\ Len(bs) = Len(frames)
    /\ \A n \in 1..Len(frames) : BlockIsFrame(bs[n], n)
    /\ \A n \in 1..(Len(frames) - 1) :
         /\ Len(RulesOf(bs[n])) = 1
         /\ Len(RulesOf(bs[n])[1]) = Len(RulesOf(bs[1])[1])

\* C19 as the code has it: one block per frame in frame order, each the three
\* labelled lines, an empty line and the frame's hex dump; blocks are
\* separated by one empty line and the report holds no rule line.
C19_BlocksSeparatedByEmptyLine ==
  pc = "written" =>
    LET bs == Blocks IN
    /\ Len(bs) = Len(frames)
    /\ \A n \in 1..Len(frames) :
         LET b == bs[n]
             lines == CeilDiv16(frames[n].end + 1 - frames[n].start)
         IN  /\ BlockIsFrame(b, n)
             /\ Len(b) = 4 + lines + (IF n = Len(frames) THEN 2 ELSE 1)
             /\ \A k \in (5 + lines)..Len(b) : b[k] = <<>>
             /\ RulesOf(b) = <<>>

\* a report of two blocks, the second with a dump of three lines
C19_Witness ==
  /\ pc = "written"
  /\ Len(frames) = 2
  /\ Len(Blocks) = 2
  /\ Len(Blocks[1]) = 6
  /\ Len(Blocks[2]) = 9

----------------------------------------------------------------------------
(* Properties of extract_file_from_zip and extract_patches_from_directory *)

\* the MetaInfo.Tags of the manifest of archive a itself; empty when a holds no
\* manifest or a malformed one
OwnManifestTags(a) ==
  LET j == a.manifest.json IN
  IF /\ a.manifest.present
     /\ j.type = "object"
     /\ "MetaInfo" \in DOMAIN j.members
     /\ j.members["MetaInfo"].type = "object"
     /\ "Tags" \in DOMAIN j.members["MetaInfo"].members
  THEN j.members["MetaInfo"].members["Tags"].items
  ELSE <<>>

\* C16: the tags recorded for a patch are the MetaInfo.Tags of the manifest of
\* its own archive, and empty when the archive has no manifest.json or a
\* malformed one; tags of an earlier patch never show on a later one and a
\* malformed manifest never aborts the batch.
C16_TagsAreOwnManifestTags ==
  /\ \A k \in 1..Len(results) :
       results[k].tags = OwnManifestTags(ArchiveAt(patch_files[k]))
  /\ raised.type # "TypeError"

\* C17: after extract_file_from_zip has copied its input to {base_name}.zip,
\* that file is gone when the call has ended, by return or by exception.
C17_TempZipRemoved ==
  pc \in {"metadata", "copy", "write", "batch_returned", "batch_raised"} =>
    zip_files = {}

\* a call that copied its input and left by an exception, and nothing is left
C17_Witness ==
  /\ pc = "batch_raised"
  /\ raised.type \in {"BadZipFile", "FileNotFoundError", "PermissionError"}
  /\ file_index = 2
  /\ zip_files = {}

\* the bytes a line of extract_readable_text_from_binary shows: the two-digit
\* groups between the offset and the first "|"
ReadableBytesOfLine(line) ==
  LET hex == SubSeq(line, 11, FirstBar(line) - 1)
      at == SelectSeq([k \in 1..(Len(hex) - 1) |-> k],
                      LAMBDA k : /\ IsHexDigit(hex[k]) /\ IsHexDigit(hex[k + 1])
                                 /\ (k = 1 \/ hex[k - 1] = SPACE))
  IN  [n \in 1..Len(at) |-> HexNumber(SubSeq(hex, at[n], at[n] + 1))]

\* the blocks of the batch report, each from its name line to the line before
\* the next name line, or to the end
BatchBlocks ==
  LET ls == SplitLines(output_md.content)
      at == NameLineNumbers(ls)
  IN  [n \in 1..Len(at) |->
         LinesBetween(ls, at[n], IF n = Len(at) THEN Len(ls) ELSE at[n + 1] - 1)]

\* block b of the report is the one of archive a: its base name, a tags line,
\* the binary label, the dump of the archive's own binary, a rule of 80 dashes
BlockIsArchive(b, a) ==
  LET lines == CeilDiv16(Len(a.bytes))
      dump == LinesBetween(b, 5, 4 + lines)
  IN  /\ Len(b) >= 6 + lines
      /\ b[1] = LABEL_NAME \o BaseNameOf(a.path)
      /\ StartsWith(b[2], LABEL_TAGS)
      /\ b[3] = LABEL_BINARY
      /\ b[4] = <<>>
      /\ Concat([k \in 1..Len(dump) |-> ReadableBytesOfLine(dump[k])]) = a.bytes
      /\ b[5 + lines] = <<>>
      /\ b[6 + lines] = [k \in 1..RULE_WIDTH |-> DASH]

\* C20: the *.dn2pst files are processed in ascending order of their paths and
\* one entry per file is returned in that order, named by the base name; the
\* markdown has one block per entry in that order, with the labels, the
\* patch's own hex dump and a rule of 80 dashes; without any *.dn2pst file the
\* result is empty and no markdown is written.
C20_SortedEntriesAndBlocks ==
  pc = "batch_returned" =>
    /\ Len(results) = Cardinality(patches_dir)
    /\ \A k \in 1..Len(results) :
         results[k].name = BaseNameOf(patch_files[k])
         /\ \E a \in patches_dir : a.path = patch_files[k]
    /\ \A k \in 1..(Len(patch_files) - 1) : StrLess(patch_files[k], patch_files[k + 1])
    /\ (patches_dir = {} => results = <<>> /\ ~output_md.exists)
    /\ (patches_dir # {} =>
          /\ output_md.exists
          /\ Len(BatchBlocks) = Len(results)
          /\ \A k \in 1..Len(results) :
               BlockIsArchive(BatchBlocks[k], ArchiveAt(patch_files[k])))

----------------------------------------------------------------------------
(* Properties of the returned record *)

\* the top-level keys the record has by contract
TopLevelKeys ==
  { "algo", "c", "a", "b", "harm", "dtun", "fdbk", "mix", "a_envelope", "b_envelope",
    "filter", "amp", "fx", "lfo1", "lfo2", "lfo3", "_extraction_info" }

\* what test_parse_hidden_tears_preset asserts of the envelopes, the filter,
\* the amplifier and the effects
ExpectedCategories ==
  [ a_envelope |-> [atk |-> 0, dec |-> 124, end |-> 0, lev |-> 115],
    b_envelope |-> [atk |-> 0, dec |-> 127, end |-> 0, lev |-> 127],
    filter |-> [type |-> "Lowpass 4", attack |-> 41, decay |-> 70, sustain |-> 80,
                release |-> 106, frequency |-> 7868, resonance |-> 64, env_amount |-> 9],
    amp |-> [attack |-> 53, decay |-> 87, sustain |-> 76, release |-> 60, reset |-> TRUE,
             mode |-> "ADSR", pan |-> "Center", volume |-> 70],
    fx |-> [bit_reduction |-> FALSE, overdrive |-> 76, sample_rate_reduction |-> 0,
            sample_rate_routing |-> "Pre-filter", delay |-> FALSE, reverb |-> 127,
            chorus |-> 59, overdrive_routing |-> "Pre-filter"] ]

----------------------------------------------------------------------------
(* Properties of the scan order *)

\* the first offset >= k holding 0xF0, NotFound when there is none
FirstStartFrom(d, k) ==
  IF \E m \in k..(Len(d) - 1) : At(d, m) = SYSEX_START
  THEN CHOOSE m \in k..(Len(d) - 1) :
         /\ At(d, m) = SYSEX_START
         /\ \A q \in k..(m - 1) : At(d, q) # SYSEX_START
  ELSE NotFound

\* the frames found so far: increasing starts, disjoint spans, each one
\* starting at the first 0xF0 from the end of the one before + 1
FramesInOrder ==
  /\ \A k \in 1..Len(frames) : frames[k].start < frames[k].end
  /\ \A k \in 2..Len(frames) :
       /\ frames[k - 1].start < frames[k].start
       /\ frames[k - 1].end < frames[k].start
       /\ frames[k].start = FirstStartFrom(data, frames[k - 1].end + 1)
  /\ \A k \in 1..Len(frames) : \A m \in 1..Len(frames) :
       ~ (frames[k].start < frames[m].start /\ frames[m].start <= frames[k].end)

\* one step of the scan: the index grows and stays within the buffer; after a
\* frame ending at j it is j + 1
IndexStep ==
  /\ i' >= i
  /\ pc = "scan" /\ pc' = "scan" => i < i' /\ i' <= Len(data)
  /\ frames' # frames =>
       /\ Len(frames') = Len(frames) + 1
       /\ i' = frames'[Len(frames')].end + 1
  /\ pc = "scan" /\ pc' # "scan" => i = Len(data)

\* C22: after any scan the frames are in strictly increasing start order and
\* pairwise disjoint: after a frame ending at j the scan resumes at j + 1, each
\* frame starts at the first 0xF0 at or after the end of the frame before + 1,
\* a 0xF0 inside a frame never starts another frame, and the scan index only
\* increases until it reaches the length of the buffer.
C22_FramesOrderedAndDisjoint == [] FramesInOrder /\ [][IndexStep]_vars

\* two frames were found, the first one with a 0xF0 inside it
C22_Witness ==
  /\ pc = "written"
  /\ Len(frames) >= 2
  /\ \E q \in (frames[1].start + 1)..(frames[1].end - 1) : At(data, q) = SYSEX_START
  /\ i = Len(data)

----------------------------------------------------------------------------
(* Properties of the prefix and name reads *)

\* the half-open range [a, b) of offsets
HalfOpen(a, b) == a..(b - 1)

\* C23: the prefix and name reads of a frame [i, j] only touch offsets in
\* [i+0x18, min(i+0x1A, j)) and [i+0x1C, min(i+0x24, j)): never outside the
\* buffer, never the terminating 0xF7 nor a byte of a following frame; a frame
\* with j <= i+0x18 has an empty prefix and a frame with j <= i+0x1C has the
\* name "Unknown", and no error is raised.
C23_ReadsStayInsideFrame ==
  \A k \in 1..Len(frames) :
    LET f == frames[k]
        touched == f.prefix_reads \cup f.name_reads
    IN  /\ f.prefix_reads \subseteq HalfOpen(f.start + 24, Min(f.start + 26, f.end))
        /\ f.name_reads \subseteq HalfOpen(f.start + 28, Min(f.start + 36, f.end))
        /\ \A q \in touched : 0 <= q /\ q < Len(data) /\ q < f.end
        /\ \A m \in 1..Len(frames) :
             m # k => touched \cap (frames[m].start)..(frames[m].end) = {}
        /\ f.end <= f.start + 24 => f.prefix = <<>>
        /\ f.end <= f.start + 28 => f.main_name = UNKNOWN
        /\ error = NoError

\* a frame cut one byte into the prefix field, with bytes after it: the prefix
\* loop reads that byte only and the name loop nothing
C23_Witness ==
  /\ pc = "written"
  /\ \E k \in 1..Len(frames) :
       /\ frames[k].end = frames[k].start + 25
       /\ frames[k].prefix_reads = {frames[k].start + 24}
       /\ frames[k].prefix # <<>>
       /\ frames[k].name_reads = {}
       /\ frames[k].main_name = UNKNOWN
       /\ Len(data) > frames[k].end + 1

====
